---- MODULE Spec2Model ----
(***************************************************************************)
(* AEGIS-SHIELD node (src/Aurdino_Code.cpp): a single-threaded Arduino     *)
(* sketch serving WebSocket sessions.  The state is the sketch's globals,  *)
(* the three output pins, the millis() clock, the WebSocket server's       *)
(* session table and receive buffer, and the position of the one thread    *)
(* of control (in loop(), or inside a delay() of an alert pattern).        *)
(*                                                                         *)
(* Time is counted in ticks of MsPerTick ms; every delay() of the sketch   *)
(* is a whole number of ticks.  millis() is an unsigned counter that       *)
(* wraps; its modulus is scaled down so that the wrap is reachable: to     *)
(* MillisWrap ticks, and to LongWrap ticks, longer than a broadcast        *)
(* interval and a whole pattern together, where periodic reporting is      *)
(* checked.                                                                *)
(***************************************************************************)
EXTENDS Integers, Sequences, FiniteSets, TLC

(* ------------------------------ bounds --------------------------------- *)
\* session handles the transport hands out are 0 .. NumIds-1
NumIds == 2
\* text frames the transport buffers while the sketch is busy
MaxPending == 1
\* arbitrary events are delivered only while |clientCount| stays within this
MaxCount == 1
\* millis() wraps at this many ticks
MillisWrap == 32
\* millis() wraps at this many ticks where a whole pattern has to fit between
\* two looks at the clock
LongWrap == 80

(* ------------------------- program constants --------------------------- *)
RED_LED == 32
GREEN_LED == 25
BUZZER == 26
LOW == 0
HIGH == 1
\* delay(100) of loop(): the finest delay of the sketch, one tick
MsPerTick == 100
DataInterval == 2000
GasThreshold == 2000
EmergencyCycles == 5
SosGroupLen == 3
ShortPulse == 200
LongPulse == 500
PulseGap == 200
GroupGap == 400
FallChance == 5

Ms(n) == n \div MsPerTick

Ids == 0 .. (NumIds - 1)
Pins == {RED_LED, GREEN_LED, BUZZER}

(* ------------------------------ texts ---------------------------------- *)
KwEmergency == <<"e","m","e","r","g","e","n","c","y">>
KwSos == <<"s","o","s">>

TxtEmergency == <<"a","n"," ","e","m","e","r","g","e","n","c","y","!">>
TxtSos == <<"s","o","s">>
TxtBoth == <<"s","o","s"," ","e","m","e","r","g","e","n","c","y">>
TxtUpper == <<"S","O","S"," ","E","M","E","R","G","E","N","C","Y">>
Texts == {TxtEmergency, TxtSos, TxtBoth, TxtUpper}

Lower(c) ==
  CASE c = "S" -> "s" [] c = "O" -> "o" [] c = "E" -> "e" [] c = "M" -> "m"
    [] c = "R" -> "r" [] c = "G" -> "g" [] c = "N" -> "n" [] c = "C" -> "c"
    [] c = "Y" -> "y" [] OTHER -> c

StrStrNoCase(message, kw) ==
  \E k \in 1 .. (Len(message) - Len(kw) + 1) :
     \A j \in 1 .. Len(kw) : Lower(message[k + j - 1]) = kw[j]

\* strstr(message, kw) != NULL
StrStr(message, kw) ==
  \E k \in 1 .. (Len(message) - Len(kw) + 1) :
     SubSeq(message, k, k + Len(kw) - 1) = kw

(* ----------------------------- payloads -------------------------------- *)
\* a JSON object is the record of its fields
StatusConnected == [status |-> "connected"]
AckEmergency == [action |-> "emergency_activated"]
AckSos == [action |-> "sos_activated"]
AlertSosCopied == [alert |-> "EMERGENCY_MANUAL_TRIGGER"]
AlertEmergency == [alert |-> "EMERGENCY_MANUAL_TRIGGER"]
AlertSos == [alert |-> "SOS_SIGNAL_SENT"]
\* jsonData before the first snapshot
NoJson == [empty |-> TRUE]
NoEvent == [type |-> "none"]

VARIABLES
  clientCount,   \* int clientCount
  lastDataSend,  \* unsigned long lastDataSend (ticks)
  jsonData,      \* String jsonData: the serialized document, as its fields
  millis,        \* the millis() counter (ticks, modulo wrap)
  wrap,          \* the modulus of the millis() counter, fixed by the platform
  pin,           \* level of the three output pins
  sessions,      \* handles the WebSocket server holds as connected
  pending,       \* text frames the transport holds, not yet handled
  pc,            \* where the thread of control is
  i,             \* loop counter of the running pattern
  grp,           \* which of triggerSOS's three for-loops is running (1..3)
  num,           \* handleWebSocketMessage's num while a pattern runs
  event,         \* the text frame the latest step delivered, if it did
  out            \* frames the latest step handed to the transport, in order

vars == <<clientCount, lastDataSend, jsonData, millis, wrap, pin, sessions,
          pending, pc, i, grp, num, event, out>>

(* --------------------------- transport calls --------------------------- *)
sendTXTLost(n, payload) == [kind |-> "send", to |-> {}, payload |-> payload]

\* webSocket.sendTXT(n, payload): one frame to session n
sendTXT(n, payload) == [kind |-> "send", to |-> {n}, payload |-> payload]
\* webSocket.broadcastTXT(payload): one frame to every connected session
broadcastTXT(payload) == [kind |-> "broadcast", to |-> sessions, payload |-> payload]

digitalWriteHigh(p, ps, v) == [q \in Pins |-> IF q \in ps THEN HIGH ELSE p[q]]

\* digitalWrite over a set of pins
digitalWrite(p, ps, v) == [q \in Pins |-> IF q \in ps THEN v ELSE p[q]]

\* delay(ms): the counter advances and wraps
delay(t, ms) == (t + Ms(ms)) % wrap

\* unsigned subtraction millis() - lastDataSend
Elapsed(now, last) == (now - last) % wrap

(* ------------------------------ sensors -------------------------------- *)
\* what one readSensors() call draws from the pins and from random()
SensorInputs ==
  [flamePin : {LOW, HIGH},
   gas : {GasThreshold - 1, GasThreshold, GasThreshold + 1},
   rHeart : {-10}, rTemp : {9}, rPosture : {2},
   rFall : {FallChance - 1, FallChance}]

\* the readings of a quiet room
QuietInputs ==
  {in \in SensorInputs : in.flamePin = HIGH /\ in.rFall = FallChance
                          /\ in.gas = GasThreshold}

\* createSensorJSON: the document that is serialized into jsonData
createSensorJSON(hr, temp, gas, posture, fall, flame, now, count) ==
  [heartRate |-> hr, temperature |-> temp, gasLevel |-> gas,
   posture |-> posture, fallDetected |-> fall, flameDetected |-> flame,
   status |-> IF flame \/ fall THEN "EMERGENCY" ELSE "NORMAL",
   timestamp |-> (now * MsPerTick) \div 1000,
   clients |-> count]

\* readSensors: the alarm condition that drives the two indicator LEDs
Alarm(in) == (in.flamePin = LOW) \/ (in.rFall < FallChance) \/ (in.gas > GasThreshold)

readSensorsPins(p, in) ==
  IF Alarm(in)
  THEN digitalWrite(digitalWrite(p, {RED_LED}, HIGH), {GREEN_LED}, LOW)
  ELSE digitalWrite(digitalWrite(p, {RED_LED}, LOW), {GREEN_LED}, HIGH)

\* temperature is kept in tenths of a degree
readSensorsJson(in, now, count) ==
  createSensorJSON(70 + in.rHeart, 250 + in.rTemp, in.gas, in.rPosture,
                   in.rFall < FallChance, in.flamePin = LOW, now, count)

(* ------------------------------- Init ---------------------------------- *)
\* after setup(): startupSequence left all pins LOW, connectWiFi left
\* GREEN_LED HIGH; 500 ms + k * 1000 ms have passed
Boot(w) ==
  /\ wrap = w
  /\ clientCount = 0
  /\ lastDataSend = 0
  /\ jsonData = NoJson
  /\ millis \in {delay(delay(0, 500), 1000), delay(delay(delay(0, 500), 1000), 1000)}
  /\ pin = [q \in Pins |-> IF q = GREEN_LED THEN HIGH ELSE LOW]
  /\ sessions = {}
  /\ pending = <<>>
  /\ pc = "poll"
  /\ i = 0
  /\ grp = 0
  /\ num = 0
  /\ event = NoEvent
  /\ out = <<>>

Init == Boot(MillisWrap)
InitLong == Boot(LongWrap)

(* --------------------------- the environment --------------------------- *)
ServicingInDelay == TRUE

\* webSocket.loop() is called from loop() only: no event is delivered while
\* the thread of control is inside a pattern's delay()
Servicing == pc = "poll"

\* a connected client sends a text frame; the transport buffers it until
\* webSocket.loop() runs, and notes whether a pattern was running then.
\* The payload is read when the frame is delivered.
Arrive(n) ==
  /\ n \in sessions
  /\ Len(pending) < MaxPending
  /\ pending' = Append(pending, [num |-> n, busy |-> (pc # "poll")])
  /\ UNCHANGED <<wrap, clientCount, lastDataSend, jsonData, millis, pin, sessions,
                 pc, i, grp, num, event, out>>

(* ------------------------- webSocketEvent ------------------------------ *)
\* case WStype_CONNECTED
Connected(n) ==
  /\ Servicing
  /\ clientCount' = clientCount + 1
  /\ sessions' = sessions \cup {n}
  /\ event' = NoEvent
  /\ out' = <<sendTXT(n, StatusConnected)>>
  /\ UNCHANGED <<wrap, lastDataSend, jsonData, millis, pin, pending, pc, i, grp, num>>

\* case WStype_DISCONNECTED; the transport discards what the closed
\* connection had buffered
Disconnected(n) ==
  /\ Servicing
  /\ clientCount' = clientCount - 1
  /\ sessions' = sessions \ {n}
  /\ pending' = SelectSeq(pending, LAMBDA f : f.num # n)
  /\ event' = NoEvent
  /\ out' = <<>>
  /\ UNCHANGED <<wrap, lastDataSend, jsonData, millis, pin, pc, i, grp, num>>

CommandSosFirst(message) ==
  IF StrStr(message, KwSos) THEN "sos"
  ELSE IF StrStr(message, KwEmergency) THEN "emergency"
  ELSE "none"

\* which branch of handleWebSocketMessage a text takes
Command(message) ==
  IF StrStr(message, KwEmergency) THEN "emergency"
  ELSE IF StrStr(message, KwSos) THEN "sos"
  ELSE "none"

DispatchDropBusy(f, message) == IF f.busy THEN "none" ELSE Command(message)

\* the branch taken for frame f: the handler does not ask whether a pattern
\* was running when the frame came in
Dispatch(f, message) == Command(message)

\* case WStype_TEXT: handleWebSocketMessage up to the first delay() of the
\* pattern it calls, or to its return when the text is not a command
Text(message) ==
  /\ Servicing
  /\ pending # <<>>
  /\ LET f == Head(pending)
         c == Dispatch(f, message)
     IN /\ pending' = Tail(pending)
        /\ event' = [type |-> "TEXT", num |-> f.num, text |-> message, busy |-> f.busy]
        /\ out' = <<>>
        /\ CASE c = "emergency" ->
                  /\ pin' = digitalWrite(pin, {RED_LED, BUZZER}, HIGH)
                  /\ pc' = "em_on"
                  /\ i' = 0
                  /\ grp' = 0
                  /\ num' = f.num
             [] c = "sos" ->
                  /\ pin' = digitalWrite(pin, {BUZZER}, HIGH)
                  /\ pc' = "sos_on"
                  /\ i' = 0
                  /\ grp' = 1
                  /\ num' = f.num
             [] OTHER ->
                  UNCHANGED <<pin, pc, i, grp, num>>
  /\ UNCHANGED <<wrap, clientCount, lastDataSend, jsonData, millis, sessions>>

finishAckFirst(alert, ack, n) == <<sendTXT(n, ack), broadcastTXT(alert)>>

\* the last line of a pattern, then the line after the call in
\* handleWebSocketMessage
finish(alert, ack, n) == <<broadcastTXT(alert), sendTXT(n, ack)>>

(* -------------------------- triggerEmergency --------------------------- *)
\* delay(200) with RED_LED and BUZZER HIGH ends; both go LOW
EmOn ==
  /\ pc = "em_on"
  /\ millis' = delay(millis, 200)
  /\ pin' = digitalWrite(pin, {RED_LED, BUZZER}, LOW)
  /\ pc' = "em_off"
  /\ event' = NoEvent
  /\ out' = <<>>
  /\ UNCHANGED <<wrap, clientCount, lastDataSend, jsonData, sessions, pending, i, grp, num>>

\* delay(200) with both LOW ends; next cycle, or the completion broadcast
\* followed by the acknowledgment of handleWebSocketMessage
EmOff ==
  /\ pc = "em_off"
  /\ millis' = delay(millis, 200)
  /\ IF i + 1 < EmergencyCycles
     THEN /\ i' = i + 1
          /\ pin' = digitalWrite(pin, {RED_LED, BUZZER}, HIGH)
          /\ pc' = "em_on"
          /\ num' = num
          /\ out' = <<>>
     ELSE /\ i' = 0
          /\ pin' = pin
          /\ pc' = "poll"
          /\ num' = 0
          /\ out' = finish(AlertEmergency, AckEmergency, num)
  /\ event' = NoEvent
  /\ UNCHANGED <<wrap, clientCount, lastDataSend, jsonData, sessions, pending, grp>>

(* ----------------------------- triggerSOS ------------------------------ *)
PulseAllShort(g) == ShortPulse

\* how long the buzzer sounds in for-loop g: short, long, short
Pulse(g) == IF g = 2 THEN LongPulse ELSE ShortPulse

\* the delay with BUZZER HIGH ends; BUZZER goes LOW
SosOn ==
  /\ pc = "sos_on"
  /\ millis' = delay(millis, Pulse(grp))
  /\ pin' = digitalWrite(pin, {BUZZER}, LOW)
  /\ pc' = "sos_off"
  /\ event' = NoEvent
  /\ out' = <<>>
  /\ UNCHANGED <<wrap, clientCount, lastDataSend, jsonData, sessions, pending, i, grp, num>>

\* delay(200) with BUZZER LOW ends: next pulse of the for-loop; or
\* delay(400) and the first pulse of the next for-loop; or the completion
\* broadcast followed by the acknowledgment of handleWebSocketMessage
SosOff ==
  /\ pc = "sos_off"
  /\ IF i + 1 < SosGroupLen
     THEN /\ millis' = delay(millis, PulseGap)
          /\ i' = i + 1
          /\ grp' = grp
          /\ pin' = digitalWrite(pin, {BUZZER}, HIGH)
          /\ pc' = "sos_on"
          /\ num' = num
          /\ out' = <<>>
     ELSE IF grp < 3
     THEN /\ millis' = delay(delay(millis, PulseGap), GroupGap)
          /\ i' = 0
          /\ grp' = grp + 1
          /\ pin' = digitalWrite(pin, {BUZZER}, HIGH)
          /\ pc' = "sos_on"
          /\ num' = num
          /\ out' = <<>>
     ELSE /\ millis' = delay(millis, PulseGap)
          /\ i' = 0
          /\ grp' = 0
          /\ pin' = pin
          /\ pc' = "poll"
          /\ num' = 0
          /\ out' = finish(AlertSos, AckSos, num)
  /\ event' = NoEvent
  /\ UNCHANGED <<wrap, clientCount, lastDataSend, jsonData, sessions, pending>>

(* -------------------------------- loop --------------------------------- *)
DueAtInterval == Elapsed(millis, lastDataSend) >= Ms(DataInterval) /\ clientCount > 0
DueNoClientTest == Elapsed(millis, lastDataSend) > Ms(DataInterval)
DueSecondClient == Elapsed(millis, lastDataSend) > Ms(DataInterval) /\ clientCount > 1

\* the if of loop(): more than DataInterval since lastDataSend, and a client
Due == Elapsed(millis, lastDataSend) > Ms(DataInterval) /\ clientCount > 0

\* sendSensorData: the broadcast, under its own test of clientCount
sendSensorData(count, data) ==
  IF count > 0 THEN <<broadcastTXT(data)>> ELSE <<>>

\* webSocket.loop() returns; the rest of loop(): readSensors, sendSensorData
\* and lastDataSend = millis() when Due, then delay(100).  The static
\* lastPrint of sendSensorData only gates a Serial line and is left out.
LoopBody(inputs) ==
  /\ pc = "poll"
  /\ IF Due
     THEN \E in \in inputs :
            /\ pin' = readSensorsPins(pin, in)
            /\ jsonData' = readSensorsJson(in, millis, clientCount)
            /\ out' = sendSensorData(clientCount, jsonData')
            /\ lastDataSend' = millis
     ELSE /\ out' = <<>>
          /\ UNCHANGED <<pin, jsonData, lastDataSend>>
  /\ millis' = delay(millis, MsPerTick)
  /\ event' = NoEvent
  /\ UNCHANGED <<wrap, clientCount, sessions, pending, pc, i, grp, num>>

ConnectAgain(n) == Connected(n)

\* the transport reports a handshake of a handle it does not hold yet, and
\* the close of a handle it holds
Connect(n) == n \notin sessions /\ Connected(n)
Disconnect(n) == n \in sessions /\ Disconnected(n)

Loop == LoopBody(QuietInputs)
LoopAny == LoopBody(SensorInputs)

\* the node in service: sessions come and go, send texts, patterns run
Next ==
  \/ \E n \in Ids : Arrive(n)
  \/ \E n \in Ids : Connect(n)
  \/ \E n \in Ids : Disconnect(n)
  \/ \E t \in Texts : Text(t)
  \/ EmOn
  \/ EmOff
  \/ SosOn
  \/ SosOff
  \/ Loop

Spec == Init /\ [][Next]_vars

\* the session registry and the broadcast scheduler under any sequence of
\* connect and disconnect events and any sensor readings
NextEvents ==
  \/ \E n \in Ids : clientCount < MaxCount /\ Connected(n)
  \/ \E n \in Ids : clientCount > -MaxCount /\ Disconnected(n)
  \/ LoopAny

SpecEvents == Init /\ [][NextEvents]_vars

\* the thread of control never stops: a delay() of a pattern ends, and every
\* iteration of loop() calls webSocket.loop(), which hands over a frame the
\* transport holds, and then runs the rest of loop()
Fairness ==
  /\ WF_vars(EmOn)
  /\ WF_vars(EmOff)
  /\ WF_vars(SosOn)
  /\ WF_vars(SosOff)
  /\ WF_vars(\E t \in Texts : Text(t))
  /\ SF_vars(Loop)

\* a text has been handled since the rest of loop() last ran
Served == event.type = "TEXT" \/ Len(out) = 2

\* the node with one client, which comes and goes and sends texts; one call
\* of webSocket.loop() hands over at most one frame of a client, so the rest
\* of loop() runs between two texts
NextLive ==
  \/ Arrive(0)
  \/ Connect(0)
  \/ Disconnect(0)
  \/ \E t \in Texts : ~Served /\ Text(t)
  \/ EmOn
  \/ EmOff
  \/ SosOn
  \/ SosOff
  \/ Loop

SpecLive == Init /\ [][NextLive]_vars /\ Fairness

\* the same with the longer counter
SpecLong == InitLong /\ [][NextLive]_vars /\ Fairness

(* ------------------------------ properties ----------------------------- *)
\* text contains word, case-sensitively
Mentions(text, word) ==
  \E a \in 0 .. Len(text) :
     /\ a + Len(word) <= Len(text)
     /\ \A k \in 1 .. Len(word) : text[a + k] = word[k]

IsAck(f) == f.kind = "send" /\ "action" \in DOMAIN f.payload
IsAlert(f) == f.kind = "broadcast" /\ "alert" \in DOMAIN f.payload
IsSnapshot(f) == f.kind = "broadcast" /\ "status" \in DOMAIN f.payload
Acks(o) == SelectSeq(o, IsAck)
Alerts(o) == SelectSeq(o, IsAlert)

EmergencyAck(n) == [kind |-> "send", to |-> {n}, payload |-> [action |-> "emergency_activated"]]
SosAck(n) == [kind |-> "send", to |-> {n}, payload |-> [action |-> "sos_activated"]]
EmergencyAlert(ss) == [kind |-> "broadcast", to |-> ss, payload |-> [alert |-> "EMERGENCY_MANUAL_TRIGGER"]]
SosAlert(ss) == [kind |-> "broadcast", to |-> ss, payload |-> [alert |-> "SOS_SIGNAL_SENT"]]

\* a step of loop() outside webSocket.loop(): one iteration's if and delay
LoopIteration == pc = "poll" /\ pc' = "poll" /\ millis' # millis
\* more than 2000 ms since lastDataSend
Tick == Elapsed(millis, lastDataSend) > 20

\* C1: after any sequence of connect and disconnect events, clientCount is
\* the number of distinct connected session ids, and it is never negative
CountIsSessions == clientCount = Cardinality(sessions) /\ clientCount >= 0

\* C2: the status field of every snapshot is "EMERGENCY" exactly when flame
\* or fall was detected or the gas level is above the threshold
StatusIsAlarm ==
  jsonData # NoJson =>
    ((jsonData.status = "EMERGENCY") <=>
       (jsonData.flameDetected \/ jsonData.fallDetected
          \/ jsonData.gasLevel > 2000))

\* C3 as stated: the acknowledgment of a command comes before the completion
\* broadcast of its pattern, so no acknowledgment is sent after an alert
AckBeforeAlert ==
  \A a, b \in 1 .. Len(out) : (a < b /\ IsAlert(out[a])) => ~IsAck(out[b])

\* C3 as amended: the completion broadcast goes to all sessions first, and
\* the acknowledgment to the issuer follows it at once; an acknowledgment
\* is sent at no other moment
AlertThenAck ==
  \A k \in 1 .. Len(out) :
     /\ IsAlert(out[k]) =>
          /\ k = 1 /\ Len(out) = 2 /\ IsAck(out[2])
          /\ (out[1].payload.alert = "EMERGENCY_MANUAL_TRIGGER"
                <=> out[2].payload.action = "emergency_activated")
          /\ (out[1].payload.alert = "SOS_SIGNAL_SENT"
                <=> out[2].payload.action = "sos_activated")
     /\ IsAck(out[k]) => (k = 2 /\ IsAlert(out[1]))

AlertThenAckSeen ==
  /\ Len(out) = 2
  /\ out[1] = EmergencyAlert(sessions)
  /\ \E n \in Ids : out[2] = EmergencyAck(n)

\* a sensor snapshot is what the latest step handed to the transport
SnapshotSent == Len(out) = 1 /\ IsSnapshot(out[1]) /\ out[1].payload = jsonData

\* C4: in a loop() iteration a sensor snapshot is broadcast if and only if
\* more than 2000 ms have passed since lastDataSend and clientCount > 0; so
\* at a scheduling tick it is sent exactly when clientCount > 0
TickBroadcastIffClients ==
  [][LoopIteration =>
       /\ Tick => (SnapshotSent' <=> clientCount > 0)
       /\ ~Tick => out' = <<>>]_vars

TickBroadcastSeen ==
  /\ SnapshotSent
  /\ event = NoEvent
  /\ lastDataSend = (millis - 1) % wrap
  /\ out[1].payload.clients = clientCount
  /\ clientCount > 0

\* C5 as stated: a recognized command that came in while a pattern was
\* running never starts a pattern
BusyCommandDropped ==
  (event.type = "TEXT" /\ event.busy
     /\ (Mentions(event.text, KwEmergency) \/ Mentions(event.text, KwSos)))
  => pc = "poll"

\* the first delay() of the pattern a text starts
StartOf(text) ==
  IF Mentions(text, KwEmergency) THEN "em_on"
  ELSE IF Mentions(text, KwSos) THEN "sos_on"
  ELSE "poll"

\* C5 as amended: a recognized command that comes in while a pattern is
\* running is not handled during that pattern; the transport holds it until
\* the pattern has completed and loop() runs again, and then it starts its
\* pattern like any other command
BusyCommandDeferred ==
  [][/\ pc # "poll" =>
          /\ Len(pending') >= Len(pending)
          /\ SubSeq(pending', 1, Len(pending)) = pending
     /\ \A t \in Texts :
          (Text(t) /\ Head(pending).busy) => (pc = "poll" /\ pc' = StartOf(t))]_vars

BusyCommandStarted ==
  /\ event.type = "TEXT"
  /\ event.busy
  /\ Mentions(event.text, KwSos)
  /\ pc = "sos_on"

\* the place of a delay() in its pattern, counted from 0
Rank(p, g, k) ==
  CASE p = "em_on" -> 2 * k
    [] p = "em_off" -> 2 * k + 1
    [] p = "sos_on" -> 6 * (g - 1) + 2 * k
    [] p = "sos_off" -> 6 * (g - 1) + 2 * k + 1
    [] OTHER -> -1
LastRank(p) == IF p \in {"em_on", "em_off"} THEN 9 ELSE 17
Family(p) ==
  CASE p \in {"em_on", "em_off"} -> "emergency"
    [] p \in {"sos_on", "sos_off"} -> "sos"
    [] OTHER -> "idle"

\* C6: at most one pattern executes at a time and its steps form one block:
\* a pattern starts only from idle, and once it runs every step of the node
\* is the next step of that same pattern, up to its completion broadcast
OnePatternAtATime ==
  [][/\ (pc' # "poll" /\ Rank(pc', grp', i') = 0 /\ <<pc, grp, i>> # <<pc', grp', i'>>)
          => pc = "poll"
     /\ pc # "poll" =>
          \/ <<pc', grp', i', pin', millis'>> = <<pc, grp, i, pin, millis>>
          \/ /\ Family(pc') = Family(pc)
             /\ Rank(pc', grp', i') = Rank(pc, grp, i) + 1
             /\ Alerts(out') = <<>>
          \/ /\ pc' = "poll"
             /\ Rank(pc, grp, i) = LastRank(pc)
             /\ Len(Alerts(out')) = 1]_vars

PatternRunsWithCommandWaiting ==
  /\ pc = "em_off"
  /\ i = 2
  /\ pending # <<>>
  /\ pin[BUZZER] = LOW

\* C7: a connect event for an id that is connected and a disconnect event
\* for an id that is not are no-ops on clientCount and the rest of the state
RepeatedEventIsNoOp ==
  [][\A n \in Ids :
       ((n \in sessions /\ Connected(n)) \/ (n \notin sessions /\ Disconnected(n)))
       => UNCHANGED <<clientCount, lastDataSend, jsonData, pin, sessions>>]_vars

InPattern(p) == p \in {"em_on", "em_off", "sos_on", "sos_off"}

\* C8: a recognized command handled while idle starts its pattern once; the
\* pattern emits nothing until its last step, then broadcasts its own alert
\* once to all sessions and leaves the sequencer idle; no alert is broadcast
\* at any other moment
CommandRunsOnce ==
  [][/\ \A t \in Texts :
          (Text(t) /\ StartOf(t) # "poll")
          => (pc' = StartOf(t) /\ Rank(pc', grp', i') = 0 /\ out' = <<>>)
     /\ (InPattern(pc) /\ InPattern(pc')) => Alerts(out') = <<>>
     /\ (Family(pc) = "emergency" /\ pc' = "poll")
          => (Rank(pc, grp, i) = 9 /\ Alerts(out') = <<EmergencyAlert(sessions)>>)
     /\ (Family(pc) = "sos" /\ pc' = "poll")
          => (Rank(pc, grp, i) = 17 /\ Alerts(out') = <<SosAlert(sessions)>>)
     /\ (pc = "poll" /\ out' # out) => Alerts(out') = <<>>]_vars

SosCompleted ==
  /\ pc = "poll"
  /\ Len(out) = 2
  /\ out[1] = SosAlert(sessions)
  /\ Cardinality(sessions) = 2

\* C9: a text with "emergency" starts the Emergency pattern, also when it
\* has "sos" too; a text with "sos" only starts the Distress pattern; the
\* one acknowledgment a command gets is the one of its pattern, and it goes
\* to the session that sent the command and to no other
DispatchEmergencyFirst ==
  [][/\ \A t \in Texts :
          Text(t) =>
            /\ Mentions(t, KwEmergency)
                 => (pc' = "em_on" /\ num' = Head(pending).num)
            /\ (~Mentions(t, KwEmergency) /\ Mentions(t, KwSos))
                 => (pc' = "sos_on" /\ num' = Head(pending).num)
            /\ Acks(out') = <<>>
     /\ (Family(pc) = "emergency" /\ pc' = "poll") => Acks(out') = <<EmergencyAck(num)>>
     /\ (Family(pc) = "sos" /\ pc' = "poll") => Acks(out') = <<SosAck(num)>>
     /\ (InPattern(pc) /\ InPattern(pc')) => (Acks(out') = <<>> /\ num' = num)
     /\ (pc = "poll" /\ out' # out) => Acks(out') = <<>>]_vars

BothWordsStartEmergency ==
  /\ event.type = "TEXT"
  /\ event.text = TxtBoth
  /\ event.num = 1
  /\ pc = "em_on"
  /\ num = 1

\* C10: a text with neither "emergency" nor "sos" in lower case is ignored:
\* nothing is sent, no pattern starts, and the counters, the clock, the
\* snapshot and the pins stay as they are
UnrecognizedIgnored ==
  [][\A t \in Texts :
       (Text(t) /\ ~Mentions(t, KwEmergency) /\ ~Mentions(t, KwSos))
       => /\ out' = <<>>
          /\ pc' = "poll"
          /\ UNCHANGED <<clientCount, lastDataSend, jsonData, millis, pin,
                         sessions, i, grp, num>>]_vars

UpperCaseTextHandled ==
  /\ event.type = "TEXT"
  /\ event.text = TxtUpper
  /\ out = <<>>
  /\ pc = "poll"
\* C11: when connects come only for ids that are not connected and
\* disconnects only for ids that are, clientCount is the number of connected
\* sessions, and every sensor snapshot goes to exactly the sessions connected
\* at that moment with its clients field equal to their number
SnapshotToConnected ==
  /\ clientCount = Cardinality(sessions)
  /\ \A k \in 1 .. Len(out) :
       IsSnapshot(out[k]) =>
         /\ out[k].to = sessions
         /\ out[k].payload.clients = Cardinality(sessions)

\* the snapshot that reaches only session 1, the one left of the two handles
SnapshotToRemaining ==
  /\ SnapshotSent
  /\ sessions = {1}
  /\ out[1].to = {1}
  /\ out[1].payload.clients = 1

\* C12: in every state after setup(), RED_LED and GREEN_LED are never both
\* HIGH, across broadcast ticks and pattern executions
IndicatorsExclusive == ~(pin[RED_LED] = HIGH /\ pin[GREEN_LED] = HIGH)

\* the acknowledgment of the pattern a text starts
AckOf(text, n) == IF StartOf(text) = "em_on" THEN EmergencyAck(n) ELSE SosAck(n)

\* C13: a command that came in while a pattern was running is not lost: once
\* that pattern has completed it is handed to the handler, unless its issuer
\* has disconnected first; and every recognized command handed to the handler
\* is eventually acknowledged to its issuer with the acknowledgment of its
\* pattern
DeferredCommandAcked ==
  /\ \A n \in Ids :
       (pc # "poll" /\ pending # <<>> /\ Head(pending).num = n /\ Head(pending).busy)
       ~> ((event.type = "TEXT" /\ event.num = n /\ event.busy) \/ n \notin sessions)
  /\ \A n \in Ids : \A t \in {TxtEmergency, TxtSos, TxtBoth} :
       (event.type = "TEXT" /\ event.num = n /\ event.text = t)
       ~> (Len(out) = 2 /\ out[2] = AckOf(t, n))

\* an Emergency command that had waited for a pattern has started its own
DeferredCommandHandled ==
  /\ event.type = "TEXT"
  /\ event.busy
  /\ event.num = 0
  /\ StartOf(event.text) = "em_on"
  /\ pc = "em_on"
  /\ i = 0

\* C14: from the first output step of a pattern to its completion broadcast
\* nothing else is processed: no connect, disconnect or text handler runs, no
\* sensor snapshot is sent, and clientCount, lastDataSend and jsonData stay
\* as they are
NothingElseDuringPattern ==
  [][InPattern(pc) =>
       /\ UNCHANGED <<clientCount, lastDataSend, jsonData, sessions>>
       /\ \A n \in Ids : ~Connected(n) /\ ~Disconnected(n)
       /\ \A t \in Texts : ~Text(t)
       /\ ~LoopAny
       /\ event' \in {event, NoEvent}
       /\ \A k \in 1 .. Len(out') : IsAlert(out'[k]) \/ IsAck(out'[k])
       /\ out' # <<>> => pc' = "poll"]_vars

\* a broadcast tick and a text frame are both held back by the last pulse of
\* a Distress pattern
TickHeldBackByPattern ==
  /\ pc = "sos_off"
  /\ grp = 3
  /\ pending # <<>>
  /\ clientCount > 0
  /\ Tick
  /\ jsonData # NoJson

\* C15: with clientCount 0 an iteration of loop() skips the broadcast step:
\* no sensor is read, nothing is sent, and jsonData, lastDataSend and the two
\* indicator LEDs stay as they are, however long ago lastDataSend was
NoClientNoBroadcastStep ==
  [][(LoopIteration /\ clientCount = 0) =>
       /\ UNCHANGED <<jsonData, lastDataSend, pin>>
       /\ out' = <<>>]_vars

\* the last client has gone while the alarm was shown; the tick is overdue
OverdueTickSkipped ==
  /\ clientCount = 0
  /\ sessions = {}
  /\ jsonData # NoJson
  /\ pin[RED_LED] = HIGH
  /\ Elapsed(millis, lastDataSend) > Ms(DataInterval) + 1
  /\ out = <<>>

\* C16: lastDataSend changes only when a snapshot is broadcast and is then
\* the millis() of that broadcast, and a snapshot is broadcast only when
\* more than 2000 ms of millis() time have passed since lastDataSend; so two
\* consecutive snapshots are more than 2000 ms apart, whatever connects,
\* disconnects or patterns came in between
SnapshotsApart ==
  [][/\ lastDataSend' # lastDataSend => (LoopIteration /\ SnapshotSent')
     /\ (LoopIteration /\ SnapshotSent') =>
          /\ lastDataSend' = millis
          /\ Elapsed(millis, lastDataSend) > Ms(DataInterval)]_vars

\* an iteration of loop() exactly 2000 ms after the last snapshot sent nothing
NoSnapshotAtInterval ==
  /\ pc = "poll"
  /\ jsonData # NoJson
  /\ Cardinality(sessions) = 1
  /\ clientCount = 1
  /\ pending = <<>>
  /\ event = NoEvent
  /\ out = <<>>
  /\ Elapsed(millis, lastDataSend) = Ms(DataInterval) + 1

\* the number of the buzzer pulse of a Distress pattern, counted from 0
PulseNo(g, k) == 3 * (g - 1) + k

\* C17: an Emergency execution is exactly 5 cycles, each with RED_LED and
\* BUZZER HIGH together for 200 ms and then both LOW; a Distress execution is
\* exactly 9 buzzer pulses, 3 of 200 ms, then 3 of 500 ms, then 3 of 200 ms,
\* and it never writes RED_LED or GREEN_LED
PatternShape ==
  [][/\ pc = "em_on" => (pin[RED_LED] = HIGH /\ pin[BUZZER] = HIGH /\ i \in 0 .. 4)
     /\ pc = "em_off" => (pin[RED_LED] = LOW /\ pin[BUZZER] = LOW /\ i \in 0 .. 4)
     /\ (pc = "poll" /\ pc' = "em_on") => i' = 0
     /\ (pc = "em_on" /\ millis' # millis) =>
          (pc' = "em_off" /\ i' = i /\ Elapsed(millis', millis) = Ms(200))
     /\ (pc = "em_off" /\ millis' # millis) =>
          IF i < 4 THEN pc' = "em_on" /\ i' = i + 1 ELSE pc' = "poll"
     /\ pc = "sos_on" => (pin[BUZZER] = HIGH /\ PulseNo(grp, i) \in 0 .. 8 /\ i \in 0 .. 2)
     /\ pc = "sos_off" => (pin[BUZZER] = LOW /\ PulseNo(grp, i) \in 0 .. 8 /\ i \in 0 .. 2)
     /\ (pc = "poll" /\ pc' = "sos_on") => PulseNo(grp', i') = 0
     /\ (pc = "sos_on" /\ millis' # millis) =>
          /\ pc' = "sos_off"
          /\ PulseNo(grp', i') = PulseNo(grp, i)
          /\ Elapsed(millis', millis) = IF PulseNo(grp, i) \in 3 .. 5 THEN Ms(500) ELSE Ms(200)
     /\ (pc = "sos_off" /\ millis' # millis) =>
          IF PulseNo(grp, i) < 8
          THEN pc' = "sos_on" /\ PulseNo(grp', i') = PulseNo(grp, i) + 1
          ELSE pc' = "poll"
     /\ (Family(pc) = "sos" \/ Family(pc') = "sos") =>
          (pin'[RED_LED] = pin[RED_LED] /\ pin'[GREEN_LED] = pin[GREEN_LED])]_vars

\* the sixth pulse of a Distress pattern, the last long one, is sounding
SixthPulseSounding ==
  /\ pc = "sos_on"
  /\ grp = 2
  /\ i = 2
  /\ pin[BUZZER] = HIGH
  /\ pin[RED_LED] = LOW
  /\ pin[GREEN_LED] = HIGH

\* C18: the timestamps of successive sensor snapshots never decrease, with
\* millis() a counter that wraps
TimestampMonotonic ==
  [][(jsonData # NoJson /\ jsonData' # NoJson)
       => jsonData'.timestamp >= jsonData.timestamp]_vars

\* C19: every started pattern comes to its end and leaves the sequencer idle
\* with BUZZER LOW; and BUZZER is LOW whenever no pattern is executing
PatternTerminates ==
  /\ [](pc = "poll" => pin[BUZZER] = LOW)
  /\ InPattern(pc) ~> (pc = "poll" /\ pin[BUZZER] = LOW)

\* an Emergency pattern has just ended
EmergencyEnded ==
  /\ pc = "poll"
  /\ Len(out) = 2
  /\ out[1] = EmergencyAlert({0})
  /\ pin[BUZZER] = LOW
  /\ pin[RED_LED] = LOW
  /\ i = 0


\* C20: if from some point on clientCount stays above 0, sensor snapshots
\* are broadcast again and again, also when commands keep coming in and each
\* blocks loop() for its whole pattern
BroadcastsRecur ==
  (<>[](clientCount > 0)) => []<>(SnapshotSent /\ event = NoEvent)

\* a snapshot went out after a pattern, before the command that came in
\* during that pattern was handled
SnapshotBetweenPatterns ==
  /\ SnapshotSent
  /\ clientCount > 0
  /\ pc = "poll"
  /\ pending # <<>>
  /\ Head(pending).busy
  /\ wrap = LongWrap
====
